---- MODULE Spec2Model ----
(***************************************************************************)
(* Model of research_server_cloud.py: the paper store (a directory of      *)
(* JSON files) and the four operations search_papers, extract_info,        *)
(* list_paper_folders and create_search_prompt.                            *)
(*                                                                         *)
(* A file's content is the sequence of JSON tokens json.dump writes;       *)
(* json.load is a parser of that token sequence.  Python values are        *)
(* tagged records (PyStr, PyNone, PyList, PyDict).  A Python string is a   *)
(* tuple naming what the string says, since only its identity matters.     *)
(***************************************************************************)
EXTENDS Integers, Sequences, FiniteSets, TLC

\* ------------------------------------------------------------------ bounds
\* Largest max_results a caller passes, and the most matches the provider holds.
MaxResults == 2
MaxMatches == 2

\* ------------------------------------------------------------- sample data
\* Identifiers the provider assigns (arxiv short ids), topics and metadata versions.
PaperIds == {"2101.00001v1", "2101.00002v1"}
Topics == {"quantum computing"}
\* The provider may return different metadata for one id at different times.
Versions == {"a", "b"}
\* info_type values callers pass: the four recognised ones and an unknown one.
InfoTypes == {"summary", "authors", "abstract", "url", "foo"}

Min(a, b) == IF a <= b THEN a ELSE b

\* ----------------------------------------------------------- Python values
PyStr(x) == [t |-> "str", v |-> x]
PyNone == [t |-> "None", v |-> <<>>]
PyList(xs) == [t |-> "list", v |-> xs]
PyDict(ks, f) == [t |-> "dict", keys |-> ks, v |-> f]

\* PAPER_DIR = "papers"; a file of the directory is named <<stem, suffix>>.
PAPER_DIR == "papers"
JsonName(id) == <<id, ".json">>
OtherName == <<"README", ".txt">>

\* --------------------------------------------------------------- provider
\* One result of arxiv.Search(...).results(): the attributes search_papers reads.
\* Version "b" has a second author, a later timestamp and no PDF link (pdf_url None).
Result(id, ver) ==
    [ short_id |-> id,
      title |-> PyStr(<<"title", id, ver>>),
      authors |-> IF ver = "a" THEN <<[name |-> <<"author", id, 1>>]>>
                  ELSE <<[name |-> <<"author", id, 1>>], [name |-> <<"author", id, 2>>]>>,
      summary |-> PyStr(<<"summary", id, ver>>),
      published |-> IF ver = "a" THEN [y |-> 2021, mo |-> 1, d |-> 4, h |-> 17]
                    ELSE [y |-> 2021, mo |-> 3, d |-> 9, h |-> 8],
      pdf_url |-> IF ver = "a" THEN PyStr(<<"pdf_url", id, ver>>) ELSE PyNone,
      categories |-> PyList(<<PyStr(<<"category", id>>)>>) ]

Results == {Result(id, ver) : id \in PaperIds, ver \in Versions}

RECURSIVE SeqsUpTo(_, _)
SeqsUpTo(S, n) ==
    IF n = 0 THEN {<<>>}
    ELSE LET shorter == SeqsUpTo(S, n - 1)
         IN shorter \cup {Append(s, x) : s \in shorter, x \in S}

DistinctIds(rs) == \A i, j \in 1..Len(rs) : i # j => rs[i].short_id # rs[j].short_id

\* What the provider holds for a topic: up to MaxMatches results, one per identifier.
MatchLists == {rs \in SeqsUpTo(Results, MaxMatches) : DistinctIds(rs)}

\* Variant: the query made without max_results, so every match is yielded.
SearchResultsUnlimited(matches, max_results) == matches

\* arxiv.Search(query, max_results, ...).results() yields at most max_results matches.
SearchResults(matches, max_results) == SubSeq(matches, 1, Min(max_results, Len(matches)))

\* str(author)
StrAuthor(author) == PyStr(author.name)

\* paper.published.strftime('%Y-%m-%d'): the date, the time of day dropped.
Strftime(dt) == PyStr(<<"date", dt.y, dt.mo, dt.d>>)

\* The dict search_papers builds for one result, in insertion order.
paper_info_keys == <<"title", "authors", "abstract", "published", "url", "categories">>

\* Variant: the dict also carries the identifier.
paper_info_with_id(paper) ==
    PyDict(<<"id">> \o paper_info_keys,
           [ id |-> PyStr(<<"id", paper.short_id>>),
             title |-> paper.title,
             authors |-> PyList([i \in 1..Len(paper.authors) |-> StrAuthor(paper.authors[i])]),
             abstract |-> paper.summary,
             published |-> Strftime(paper.published),
             url |-> paper.pdf_url,
             categories |-> paper.categories ])

paper_info(paper) ==
    PyDict(paper_info_keys,
           [ title |-> paper.title,
             authors |-> PyList([i \in 1..Len(paper.authors) |-> StrAuthor(paper.authors[i])]),
             abstract |-> paper.summary,
             published |-> Strftime(paper.published),
             url |-> paper.pdf_url,
             categories |-> paper.categories ])

\* ------------------------------------------------------------ json.dump
\* The tokens json.dump(value, f, indent=2, ensure_ascii=False) writes.  Layout
\* (indentation, commas) carries no information and is left out; ensure_ascii=False
\* writes each string's characters as they are.
RECURSIVE DumpValue(_), DumpItems(_), DumpMembers(_, _)
DumpValue(val) ==
    CASE val.t = "str" -> << <<"str", val.v>> >>
      [] val.t = "None" -> << <<"null">> >>
      [] val.t = "list" -> << <<"[">> >> \o DumpItems(val.v) \o << <<"]">> >>
      [] val.t = "dict" -> << <<"{">> >> \o DumpMembers(val.keys, val.v) \o << <<"}">> >>

DumpItems(xs) == IF xs = <<>> THEN <<>> ELSE DumpValue(Head(xs)) \o DumpItems(Tail(xs))

DumpMembers(ks, f) ==
    IF ks = <<>> THEN <<>>
    ELSE << <<"key", Head(ks)>> >> \o DumpValue(f[Head(ks)]) \o DumpMembers(Tail(ks), f)

\* ------------------------------------------------------------ json.load
\* A parse result: [ok, val, next]; next is the position after the value.
ParseFail == [ok |-> FALSE, val |-> PyNone, next |-> 0]

RECURSIVE ParseValue(_, _), ParseItems(_, _, _), ParseMembers(_, _, _, _)
ParseValue(c, i) ==
    IF i > Len(c) THEN ParseFail
    ELSE CASE c[i][1] = "str" -> [ok |-> TRUE, val |-> PyStr(c[i][2]), next |-> i + 1]
           [] c[i][1] = "null" -> [ok |-> TRUE, val |-> PyNone, next |-> i + 1]
           [] c[i][1] = "[" -> ParseItems(c, i + 1, <<>>)
           [] c[i][1] = "{" -> ParseMembers(c, i + 1, <<>>, <<>>)
           [] OTHER -> ParseFail

ParseItems(c, i, acc) ==
    IF i > Len(c) THEN ParseFail
    ELSE IF c[i][1] = "]" THEN [ok |-> TRUE, val |-> PyList(acc), next |-> i + 1]
    ELSE LET r == ParseValue(c, i)
         IN IF r.ok THEN ParseItems(c, r.next, Append(acc, r.val)) ELSE ParseFail

\* A repeated key keeps its first position and takes its last value, as a dict does.
ParseMembers(c, i, ks, f) ==
    IF i > Len(c) THEN ParseFail
    ELSE IF c[i][1] = "}" THEN [ok |-> TRUE, val |-> PyDict(ks, f), next |-> i + 1]
    ELSE IF c[i][1] # "key" THEN ParseFail
    ELSE LET k == c[i][2]
             r == ParseValue(c, i + 1)
             seen == \E n \in 1..Len(ks) : ks[n] = k
         IN IF r.ok
            THEN ParseMembers(c, r.next, IF seen THEN ks ELSE Append(ks, k),
                              [x \in (DOMAIN f) \cup {k} |-> IF x = k THEN r.val ELSE f[x]])
            ELSE ParseFail

\* json.load(f): the whole content must be one value, else JSONDecodeError.
Load(c) ==
    LET r == ParseValue(c, 1)
    IN IF r.ok /\ r.next = Len(c) + 1 THEN [ok |-> TRUE, val |-> r.val]
       ELSE [ok |-> FALSE, val |-> PyNone]

\* --------------------------------------------------------------- state
VARIABLES
    dirExists,   \* whether the directory PAPER_DIR exists
    files,       \* the directory's files: name -> content (token sequence)
    last,        \* the latest invocation: its arguments, what happened and its result
    lastRec,     \* history: per id, the record search_papers wrote most recently
    searchRan,   \* history: some search_papers call got past os.makedirs
    searchOk,    \* history: some search_papers call returned its "Found ..." string
    wpc, wres, widx, wdata, closed
                 \* two concurrent search_papers invocations (SpecConc only)

vars == <<dirExists, files, last, lastRec, searchRan, searchOk, wpc, wres, widx, wdata, closed>>

Workers == {1, 2}
NoRec == [t |-> "absent"]

\* ------------------------------------------------------- search_papers
\* Variant: the directory made only once the whole search has succeeded.
DirAfterSearchOnSuccess(dir, exc) == dir \/ exc = "none"

\* os.makedirs(PAPER_DIR, exist_ok=True) runs first, before the query is made:
\* the directory exists after it unless makedirs itself raised.
DirAfterSearch(dir, exc) == IF exc = "makedirs" THEN dir ELSE TRUE

\* Variant: the file opened without truncating it (mode 'r+' on an existing file).
OpenNoTruncate(fs, name) ==
    [n \in (DOMAIN fs) \cup {name} |-> IF n \in DOMAIN fs THEN fs[n] ELSE <<>>]

\* open(filename, 'w'): the file is created, or truncated if it exists.
Open(fs, name) == [n \in (DOMAIN fs) \cup {name} |-> IF n = name THEN <<>> ELSE fs[n]]

\* Leaving the with block: what json.dump put in the buffer is written from the
\* writer's offset 0 over what the file holds by then, and the file is closed.
Flush(fs, name, content) ==
    [fs EXCEPT ![name] = content \o SubSeq(fs[name], Len(content) + 1, Len(fs[name]))]

\* Variant: the file opened in append mode, the new text added after the old.
WriteFileAppend(fs, name, content) ==
    [n \in (DOMAIN fs) \cup {name} |->
        IF n # name THEN fs[n]
        ELSE IF n \in DOMAIN fs THEN fs[n] \o content ELSE content]

\* Variant: the directory emptied before the file is written.
WriteFileClearsDir(fs, name, content) == [n \in {name} |-> content]

\* with open(filename, 'w') as f: json.dump(paper_info, f, ...), run alone.
WriteFile(fs, name, content) == Flush(Open(fs, name), name, content)

\* json.dump's output for each result the provider can return (DumpValue of its
\* paper_info, computed once).
Serialized == [paper \in Results |-> DumpValue(paper_info(paper))]

\* The for loop over the results: one file per result, in result order.
\* Returns the files and the names written, in order.
RECURSIVE SaveAll(_, _, _)
SaveAll(fs, papers, written) ==
    IF papers = <<>> THEN [files |-> fs, writes |-> written]
    ELSE LET paper == Head(papers)
             filename == JsonName(paper.short_id)
         IN SaveAll(WriteFile(fs, filename, Serialized[paper]),
                    Tail(papers), Append(written, filename))

\* What can go wrong in one call: nothing; os.makedirs raises; the provider
\* raises (at the query or between two results); open() raises.  `done` is the
\* number of results handled completely before that.
Excs == {"none", "makedirs", "provider", "open"}

CanHappen(n, exc, done) ==
    CASE exc = "none" -> done = n
      [] exc = "makedirs" -> done = 0
      [] exc = "provider" -> done \in 0..n
      [] exc = "open" -> done \in 0..(n - 1)

\* search_papers(topic, max_results) in store (dir, fs), the provider holding
\* `matches`: the store after it and the string returned.
search_papers(dir, fs, topic, max_results, matches, exc, done) ==
    IF exc = "makedirs"
    THEN [dir |-> DirAfterSearch(dir, exc), files |-> fs, writes |-> <<>>, saved |-> <<>>,
          ret |-> [tag |-> "error_search", exc |-> exc]]
    ELSE LET results == SearchResults(matches, max_results)
             handled == SubSeq(results, 1, done)
             out == SaveAll(fs, handled, <<>>)
         IN [dir |-> DirAfterSearch(dir, exc), files |-> out.files, writes |-> out.writes,
             saved |-> handled,
             ret |-> IF exc = "none"
                     THEN [tag |-> "found", count |-> Len(results), topic |-> topic,
                           where |-> PAPER_DIR]
                     ELSE [tag |-> "error_search", exc |-> exc]]

\* -------------------------------------------------------- extract_info
\* paper[key]
Subscript(paper, key) ==
    IF paper.t # "dict" THEN [exc |-> "TypeError", val |-> PyNone]
    ELSE IF key \notin DOMAIN paper.v THEN [exc |-> "KeyError", val |-> PyNone]
    ELSE [exc |-> "none", val |-> paper.v[key]]

\* ', '.join(x): x must be an iterable of strings.
Join(x) ==
    CASE x.t = "list" ->
           IF \A i \in 1..Len(x.v) : x.v[i].t = "str"
           THEN [exc |-> "none", val |-> PyStr(<<"join", [i \in 1..Len(x.v) |-> x.v[i].v]>>)]
           ELSE [exc |-> "TypeError", val |-> PyNone]
      [] x.t = "str" -> [exc |-> "none", val |-> PyStr(<<"joinchars", x.v>>)]
      [] x.t = "dict" -> [exc |-> "none", val |-> PyStr(<<"join", x.keys>>)]
      [] OTHER -> [exc |-> "TypeError", val |-> PyNone]

ExtractError(exc) == [tag |-> "error_extract", exc |-> exc]

\* The if/elif chain on info_type, given the loaded paper.
Project(paper, info_type) ==
    LET title == Subscript(paper, "title")
        authors == Subscript(paper, "authors")
        joined == IF authors.exc = "none" THEN Join(authors.val) ELSE authors
        abstract == Subscript(paper, "abstract")
        url == Subscript(paper, "url")
    IN CASE info_type = "summary" ->
              IF title.exc # "none" THEN ExtractError(title.exc)
              ELSE IF joined.exc # "none" THEN ExtractError(joined.exc)
              ELSE IF abstract.exc # "none" THEN ExtractError(abstract.exc)
              ELSE [tag |-> "summary", title |-> title.val, authors |-> joined.val,
                    abstract |-> abstract.val]
         [] info_type = "authors" ->
              IF joined.exc # "none" THEN ExtractError(joined.exc)
              ELSE [tag |-> "authors", authors |-> joined.val]
         [] info_type = "abstract" ->
              IF abstract.exc # "none" THEN ExtractError(abstract.exc)
              ELSE [tag |-> "value", val |-> abstract.val]
         [] info_type = "url" ->
              IF url.exc # "none" THEN ExtractError(url.exc)
              ELSE [tag |-> "value", val |-> url.val]
         [] OTHER -> [tag |-> "options"]

\* os.path.exists(f"{PAPER_DIR}/{paper_id}.json")
Exists(dir, fs, name) == dir /\ name \in DOMAIN fs

\* Variant: info_type checked before the file is looked for.
extract_info_type_first(dir, fs, paper_id, info_type, readable) ==
    LET filename == JsonName(paper_id)
    IN IF info_type \notin {"summary", "authors", "abstract", "url"} THEN [tag |-> "options"]
       ELSE IF ~Exists(dir, fs, filename) THEN [tag |-> "not_found", paper_id |-> paper_id]
       ELSE IF ~readable THEN ExtractError("OSError")
       ELSE LET loaded == Load(fs[filename])
            IN IF ~loaded.ok THEN ExtractError("JSONDecodeError")
               ELSE Project(loaded.val, info_type)

\* extract_info(paper_id, info_type); `readable` is whether open(filename, 'r') succeeds.
extract_info(dir, fs, paper_id, info_type, readable) ==
    LET filename == JsonName(paper_id)
    IN IF ~Exists(dir, fs, filename) THEN [tag |-> "not_found", paper_id |-> paper_id]
       ELSE IF ~readable THEN ExtractError("OSError")
       ELSE LET loaded == Load(fs[filename])
            IN IF ~loaded.ok THEN ExtractError("JSONDecodeError")
               ELSE Project(loaded.val, info_type)

\* -------------------------------------------------- list_paper_folders
EndsWithJson(f) == f[2] = ".json"

\* os.listdir(PAPER_DIR) returns the names in an order of the filesystem's choosing.
ListDir(fs) ==
    LET n == Cardinality(DOMAIN fs)
    IN {s \in [1..n -> DOMAIN fs] : \A i, j \in 1..n : i # j => s[i] # s[j]}

\* Variant: every file of the directory counted, whatever its suffix.
list_paper_folders_no_filter(dir, listing) ==
    IF ~dir THEN [tag |-> "no_directory"]
    ELSE IF listing = <<>> THEN [tag |-> "no_papers"]
    ELSE [tag |-> "found", count |-> Len(listing), names |-> listing]

\* list_paper_folders(), given the listing os.listdir returned.
list_paper_folders(dir, listing) ==
    IF ~dir THEN [tag |-> "no_directory"]
    ELSE LET json_files == SelectSeq(listing, EndsWithJson)
         IN IF json_files = <<>> THEN [tag |-> "no_papers"]
            ELSE [tag |-> "found", count |-> Len(json_files), names |-> json_files]

\* ------------------------------------------------ create_search_prompt
\* The template with topic in its three slots.
create_search_prompt(topic) == [tag |-> "prompt", slots |-> <<topic, topic, topic>>]

\* Whether a returned value is a Python str: every f-string is; a field returned
\* as it was loaded is whatever JSON value the file held.
IsString(ret) == ret.tag # "value" \/ ret.val.t = "str"

\* ------------------------------------------------------- initial states
JsonNames == {JsonName(id) : id \in PaperIds}

IdleWorkers ==
    /\ wpc = [w \in Workers |-> "idle"]
    /\ wres = [w \in Workers |-> <<>>]
    /\ widx = [w \in Workers |-> 1]
    /\ wdata = [w \in Workers |-> <<>>]
    /\ closed = [n \in JsonNames |-> <<>>]

\* A fresh deployment: no papers directory yet.
Init ==
    /\ dirExists = FALSE
    /\ files = <<>>
    /\ last = [op |-> "none"]
    /\ lastRec = [id \in PaperIds |-> NoRec]
    /\ searchRan = FALSE
    /\ searchOk = FALSE
    /\ IdleWorkers

\* Files the directory may hold that no search_papers call of this run wrote:
\* a file cut short, and a hand-made record with other fields (an id and notes,
\* a null url, no abstract, published or categories).
Truncated == << <<"{">>, <<"key", "title">> >>
Foreign(id) ==
    DumpValue(PyDict(<<"id", "title", "authors", "url", "notes">>,
                     [ id |-> PyStr(<<"id", id>>),
                       title |-> PyStr(<<"title", id, "old">>),
                       authors |-> PyList(<<PyStr(<<"author", id, 0>>)>>),
                       url |-> PyNone,
                       notes |-> PyStr(<<"notes", id>>) ]))
ReadmeText == << <<"str", <<"readme">>>> >>

InitContents(name) ==
    IF name = OtherName THEN {ReadmeText} ELSE {Truncated, Foreign(name[1])}

InitStores ==
    UNION {{f \in [S -> {Truncated, ReadmeText} \cup {Foreign(id) : id \in PaperIds}] :
              \A n \in S : f[n] \in InitContents(n)} :
           S \in SUBSET (JsonNames \cup {OtherName})}

\* A deployment that finds a store already there, in any state.
InitStore ==
    /\ dirExists \in BOOLEAN
    /\ files \in InitStores
    /\ ~dirExists => files = <<>>
    /\ last = [op |-> "none"]
    /\ lastRec = [id \in PaperIds |-> NoRec]
    /\ searchRan = FALSE
    /\ searchOk = FALSE
    /\ IdleWorkers

\* ---------------------------------------------------------------- actions
\* The record most recently written for id, after `saved` were written in order.
RecAfter(old, saved, id) ==
    LET hits == {i \in 1..Len(saved) : saved[i].short_id = id}
    IN IF hits = {} THEN old
       ELSE paper_info(saved[CHOOSE i \in hits : \A j \in hits : j <= i])

Search ==
    \E topic \in Topics, max_results \in 0..MaxResults, matches \in MatchLists,
       exc \in Excs, done \in 0..MaxResults :
        /\ CanHappen(Len(SearchResults(matches, max_results)), exc, done)
        /\ \E r \in {search_papers(dirExists, files, topic, max_results, matches, exc, done)} :
              /\ dirExists' = r.dir
              /\ files' = r.files
              /\ last' = [op |-> "search", topic |-> topic, max_results |-> max_results,
                          ids |-> [i \in 1..Len(matches) |-> matches[i].short_id],
                          exc |-> exc, pre |-> DOMAIN files, writes |-> r.writes,
                          ret |-> r.ret]
              /\ lastRec' = [id \in PaperIds |-> RecAfter(lastRec[id], r.saved, id)]
              /\ searchRan' = (searchRan \/ exc # "makedirs")
              /\ searchOk' = (searchOk \/ exc = "none")
        /\ UNCHANGED <<wpc, wres, widx, wdata, closed>>

Extract ==
    \E paper_id \in PaperIds, info_type \in InfoTypes, readable \in BOOLEAN :
        /\ last' = [op |-> "extract", paper_id |-> paper_id, info_type |-> info_type,
                    readable |-> readable,
                    ret |-> extract_info(dirExists, files, paper_id, info_type, readable)]
        /\ UNCHANGED <<dirExists, files, lastRec, searchRan, searchOk, wpc, wres, widx, wdata, closed>>

\* History for the listing: N when the invocation just before was a search_papers
\* call that found the store without any file and returned "Found N papers ...",
\* else -1.
FirstSearchCount ==
    IF last.op = "search" /\ last.exc = "none" /\ last.pre = {} THEN last.ret.count ELSE -1

List ==
    \E listing \in ListDir(files) :
        /\ last' = [op |-> "list", after |-> FirstSearchCount,
                    ret |-> list_paper_folders(dirExists, listing)]
        /\ UNCHANGED <<dirExists, files, lastRec, searchRan, searchOk, wpc, wres, widx, wdata, closed>>

Prompt ==
    \E topic \in Topics :
        /\ last' = [op |-> "prompt", topic |-> topic, ret |-> create_search_prompt(topic)]
        /\ UNCHANGED <<dirExists, files, lastRec, searchRan, searchOk, wpc, wres, widx, wdata, closed>>

Next == Search \/ Extract \/ List \/ Prompt

Spec == Init /\ [][Next]_vars

SpecStore == InitStore /\ [][Next]_vars

\* ------------------------------------------- two concurrent invocations
\* The host may run two search_papers calls at once.  Nothing in search_papers
\* locks the file, so the steps of the two calls interleave: open(filename, 'w')
\* creates or truncates the file; json.dump fills the writer's buffer; leaving
\* the with block flushes the buffer at the writer's own offset, 0, and closes.
CStart(w) ==
    \E topic \in Topics, max_results \in 0..MaxResults, matches \in MatchLists :
        /\ wpc[w] = "idle"
        /\ dirExists' = DirAfterSearch(dirExists, "none")
        /\ wres' = [wres EXCEPT ![w] = SearchResults(matches, max_results)]
        /\ wpc' = [wpc EXCEPT ![w] = "loop"]
        /\ searchRan' = TRUE
        /\ UNCHANGED <<files, last, lastRec, searchOk, widx, wdata, closed>>

COpen(w) ==
    /\ wpc[w] = "loop"
    /\ widx[w] <= Len(wres[w])
    /\ LET paper == wres[w][widx[w]]
       IN /\ files' = Open(files, JsonName(paper.short_id))
          /\ wdata' = [wdata EXCEPT ![w] = Serialized[paper]]
    /\ wpc' = [wpc EXCEPT ![w] = "write"]
    /\ UNCHANGED <<dirExists, last, lastRec, searchRan, searchOk, wres, widx, closed>>

CClose(w) ==
    /\ wpc[w] = "write"
    /\ LET filename == JsonName(wres[w][widx[w]].short_id)
       IN /\ files' = Flush(files, filename, wdata[w])
          /\ closed' = [closed EXCEPT ![filename] = wdata[w]]
    /\ widx' = [widx EXCEPT ![w] = widx[w] + 1]
    /\ wpc' = [wpc EXCEPT ![w] = "loop"]
    /\ UNCHANGED <<dirExists, last, lastRec, searchRan, searchOk, wres, wdata>>

CReturn(w) ==
    /\ wpc[w] = "loop"
    /\ widx[w] > Len(wres[w])
    /\ wpc' = [wpc EXCEPT ![w] = "done"]
    /\ last' = [op |-> "search_done", worker |-> w,
                ret |-> [tag |-> "found", count |-> Len(wres[w]), where |-> PAPER_DIR]]
    /\ searchOk' = TRUE
    /\ UNCHANGED <<dirExists, files, lastRec, searchRan, wres, widx, wdata, closed>>

NextConc == \E w \in Workers : CStart(w) \/ COpen(w) \/ CClose(w) \/ CReturn(w)

SpecConc == Init /\ [][NextConc]_vars

\* ------------------------------------------------------------ properties
KnownInfoTypes == {"summary", "authors", "abstract", "url"}
SixFields == {"title", "authors", "abstract", "published", "url", "categories"}
SevenFields == SixFields \cup {"id"}

\* The field names of the JSON object a file holds ({} when it holds none).
FileFields(n) ==
    LET l == Load(files[n])
    IN IF l.ok /\ l.val.t = "dict" THEN DOMAIN l.val.v ELSE {}

NoJsonFile == \A n \in DOMAIN files : ~EndsWithJson(n)

\* C1: a search_papers call in which nothing fails, the provider holding m matches,
\* writes exactly min(max_results, m) files, the i-th named <id>.json after the
\* i-th match's identifier, all of them in the directory afterwards, and reports
\* that count in the string it returns.
C1_SearchWritesMinFiles ==
    (last.op = "search" /\ last.exc = "none") =>
        LET n == Min(last.max_results, Len(last.ids))
        IN /\ Len(last.writes) = n
           /\ \A i \in 1..n : /\ last.writes[i] = JsonName(last.ids[i])
                              /\ Exists(dirExists, files, last.writes[i])
           /\ Cardinality({last.writes[i] : i \in 1..n}) = n
           /\ last.ret = [tag |-> "found", count |-> n, topic |-> last.topic,
                          where |-> PAPER_DIR]

\* A search asking for 1 result of a provider holding 2 wrote 1 file.
C1_Witness ==
    /\ last.op = "search" /\ last.exc = "none"
    /\ last.max_results = 1 /\ Len(last.ids) = 2 /\ Len(last.writes) = 1

\* C2 as stated: starting from no store, every file of the store holds a JSON object
\* with exactly the seven fields id, title, authors, abstract, published, url and
\* categories.
C2_SevenFieldsAsClaimed == \A n \in DOMAIN files : FileFields(n) = SevenFields

\* C2 amended: starting from no store, every file of the store is named <id>.json
\* and holds a JSON object with exactly the six fields title, authors, abstract,
\* published, url and categories, in that order; the id is in the file's name only.
C2_SixFields ==
    \A n \in DOMAIN files :
        /\ EndsWithJson(n)
        /\ Load(files[n]).ok
        /\ Load(files[n]).val.t = "dict"
        /\ Load(files[n]).val.keys = paper_info_keys
        /\ FileFields(n) = SixFields

\* Two searches' worth of files are in the store.
C2_Witness ==
    /\ Cardinality(DOMAIN files) = 2
    /\ \A n \in DOMAIN files : FileFields(n) = SixFields

\* C3 as stated: extract_info with an unknown info_type returns the options string
\* whether or not the paper's file exists.
C3_OptionsAlwaysAsClaimed ==
    (last.op = "extract" /\ last.info_type \notin KnownInfoTypes) =>
        last.ret = [tag |-> "options"]

\* C3 amended: extract_info with an unknown info_type returns the not-found string
\* when the paper's file does not exist, an "Error extracting info" string when the
\* file cannot be read or is not JSON, and the options string otherwise.
C3_OptionsWhenFileLoads ==
    (last.op = "extract" /\ last.info_type \notin KnownInfoTypes) =>
        IF ~Exists(dirExists, files, JsonName(last.paper_id))
        THEN last.ret = [tag |-> "not_found", paper_id |-> last.paper_id]
        ELSE IF ~last.readable \/ ~Load(files[JsonName(last.paper_id)]).ok
        THEN last.ret.tag = "error_extract"
        ELSE last.ret = [tag |-> "options"]

\* The options string came back for a paper whose file exists.
C3_Witness ==
    /\ last.op = "extract" /\ last.info_type = "foo"
    /\ Exists(dirExists, files, JsonName(last.paper_id))
    /\ last.ret = [tag |-> "options"]

C5_AlwaysReturnsString == last.op # "none" => IsString(last.ret)

\* C6: a search_papers call in which nothing fails and whose ids all have a file
\* already leaves the set of files as it was, and each file written holds exactly
\* the record of this write: nothing of what the file held before remains.
C6_OverwriteKeepsOneFilePerId ==
    (/\ last.op = "search" /\ last.exc = "none"
     /\ \A i \in 1..Len(last.writes) : last.writes[i] \in last.pre) =>
        /\ DOMAIN files = last.pre
        /\ \A i \in 1..Len(last.writes) :
              /\ Load(files[last.writes[i]]).ok
              /\ Load(files[last.writes[i]]).val = lastRec[last.ids[i]]
              /\ FileFields(last.writes[i]) = SixFields

\* A search rewrote two files that were both there before it.
C6_Witness ==
    /\ last.op = "search" /\ last.exc = "none" /\ Len(last.writes) = 2
    /\ \A i \in 1..2 : last.writes[i] \in last.pre

\* C7 as stated: no directory gives the no-directory string, no .json file the
\* no-papers string, and right after a successful search of N results on a store
\* without files the listing reports the count N and N filenames.
C7_ListingAsClaimed ==
    last.op = "list" =>
        /\ ~dirExists => last.ret = [tag |-> "no_directory"]
        /\ (dirExists /\ NoJsonFile) => last.ret = [tag |-> "no_papers"]
        /\ last.after >= 0 => /\ last.ret.tag = "found"
                              /\ last.ret.count = last.after
                              /\ Len(last.ret.names) = last.after

\* C7 amended: as stated for N >= 1, the N filenames being those of the store; for
\* N = 0 the listing is the no-papers string, which carries no count.
C7_ListingCountsJsonFiles ==
    last.op = "list" =>
        /\ ~dirExists => last.ret = [tag |-> "no_directory"]
        /\ (dirExists /\ NoJsonFile) => last.ret = [tag |-> "no_papers"]
        /\ last.after >= 1 => /\ last.ret.tag = "found"
                              /\ last.ret.count = last.after
                              /\ Len(last.ret.names) = last.after
                              /\ {last.ret.names[i] : i \in 1..last.after} = DOMAIN files
        /\ last.after = 0 => last.ret = [tag |-> "no_papers"]

\* The listing right after a first search of 2 results reports 2 files.
C7_Witness ==
    /\ last.op = "list" /\ last.after = 2
    /\ last.ret.tag = "found" /\ last.ret.count = 2

\* C8: for every id a record was written for, extract_info(id, "url") on a readable
\* file returns exactly the url value of the record written most recently.
C8_UrlRoundTrip ==
    /\ \A id \in PaperIds :
          lastRec[id] # NoRec =>
              extract_info(dirExists, files, id, "url", TRUE)
                  = [tag |-> "value", val |-> lastRec[id].v.url]
    /\ (/\ last.op = "extract" /\ last.info_type = "url" /\ last.readable
        /\ lastRec[last.paper_id] # NoRec) =>
           last.ret = [tag |-> "value", val |-> lastRec[last.paper_id].v.url]

\* extract_info returned the url string of a record search_papers wrote.
C8_Witness ==
    /\ last.op = "extract" /\ last.info_type = "url" /\ last.readable
    /\ lastRec[last.paper_id] # NoRec
    /\ last.ret.tag = "value" /\ last.ret.val.t = "str"

\* C9: extract_info, list_paper_folders and create_search_prompt leave the directory
\* and every file as they were, and no step removes a file or the directory.
C9_OnlySearchWrites ==
    [][ /\ last'.op \in {"extract", "list", "prompt"} =>
              (files' = files /\ dirExists' = dirExists)
        /\ \A n \in DOMAIN files : n \in DOMAIN files'
        /\ dirExists => dirExists' ]_vars

\* A search wrote one file beside another that is still there.
C9_Witness ==
    /\ last.op = "search" /\ Len(last.writes) = 1
    /\ \E n \in DOMAIN files : n # last.writes[1] /\ n \in last.pre

\* C10: once two concurrent search_papers calls have both returned, every file
\* holds exactly the record of the write to it that finished last.
C10_LastWriteWins ==
    (\A w \in Workers : wpc[w] = "done") =>
        \A n \in DOMAIN files : files[n] = closed[n]

====
